---- MODULE Spec2Model ----
(***************************************************************************)
(* The board/piece simulation of Tetrominoes: Grid, Shape, Tetromino,      *)
(* Board and Game (src/src/grid.rs, tetromino.rs, board.rs, game.rs).      *)
(*                                                                         *)
(* Spec       the game session: Game::new followed by tick and keyboard    *)
(*            handlers, each handler one atomic action.                    *)
(* SpecDrops  the game session in which the player only presses the drop  *)
(*            key, until the game over is reported.                        *)
(* SpecBoard  single calls of Board::can_fit, Board::place,                *)
(*            Board::clear_complete and Tetromino::rotated on boards and   *)
(*            tetrominoes drawn from bounded families.                     *)
(* SpecFalls  the game session from Game::new to the first finalize: the   *)
(*            clock ticks and the player rotates and moves left, right and *)
(*            down, without end and in any order; no drop key.             *)
(* SpecScenes the MainMenu scene and GameOver scenes: calls of tick and of  *)
(*            keyboard_input with pressed and released keys.               *)
(* SpecGrid   a Grid built by from_row_major or filled_with, then one call *)
(*            of get, set, row_slice, row_slice_mut or iter_with_indices,  *)
(*            in a debug build (overflow checks) and in a release build    *)
(*            (wrapping arithmetic).                                       *)
(***************************************************************************)
EXTENDS Integers, Sequences, FiniteSets, TLC

(***************************************************************************)
(* Program constants.                                                      *)
(***************************************************************************)
WIDTH == 10
HEIGHT == 20
FALL_TICKS == 60
U8 == 256

\* Stand-in for 2^64 in `as usize` casts of negative i32 values.  TLC's
\* integers are 32 bits wide; the code only compares the cast value with the
\* grid's width and height, and every coordinate of the model is far smaller.
USIZE_MODULUS == 2 ^ 30

(***************************************************************************)
(* Bounds of the model.                                                    *)
(***************************************************************************)
\* Shape::random() draws among the first NumShapes entries of VARIANTS.
NumShapes == 2
\* Key presses (rotate / move) the player makes after the opening.
MaxKeys == 1
\* Hard drops the player makes after the opening.
MaxDrops == 1
\* Calls of tick() after the opening.
MaxTicks == 1
\* SpecBoard: number of complete rows put into an input board.
MaxFull == 3
\* SpecBoard: how far a tetromino's 4x4 frame reaches beyond the board's edges.
MaxOut == 1
\* SpecFalls: the player turns the falling tetromino at most MaxTurn quarter
\* turns clockwise from the rotation it was spawned with, and back.
MaxTurn == 1
\* SpecGrid: widths and heights 0..MaxDim, besides HALF_WORD.
MaxDim == 2
\* SpecGrid: longest vector of values given to from_row_major.
MaxCells == 4

(***************************************************************************)
(* tetromino.rs: Shape                                                     *)
(***************************************************************************)
VARIANTS == <<"I", "J", "L", "O", "T", "Z", "S">>

Shapes == {VARIANTS[i] : i \in 1..Len(VARIANTS)}

\* Option::None of a board cell (Option<Shape>).
None == "None"

\* The values Shape::random() can return, within the bound NumShapes.
random == {VARIANTS[i] : i \in 1..(IF NumShapes < Len(VARIANTS) THEN NumShapes ELSE Len(VARIANTS))}

Shape_squares(shape, rotation) ==
    LET r == rotation % 4 IN
    CASE shape = "I" /\ r \in {0, 2} -> << <<0, 2>>, <<1, 2>>, <<2, 2>>, <<3, 2>> >>
      [] shape = "I" /\ r \in {1, 3} -> << <<2, 0>>, <<2, 1>>, <<2, 2>>, <<2, 3>> >>
      [] shape = "O"                 -> << <<1, 1>>, <<2, 1>>, <<1, 2>>, <<2, 2>> >>
      [] shape = "J" /\ r = 0 -> << <<1, 1>>, <<2, 1>>, <<3, 1>>, <<3, 2>> >>
      [] shape = "J" /\ r = 1 -> << <<2, 0>>, <<2, 1>>, <<1, 2>>, <<2, 2>> >>
      [] shape = "J" /\ r = 2 -> << <<1, 0>>, <<1, 1>>, <<2, 1>>, <<3, 1>> >>
      [] shape = "J" /\ r = 3 -> << <<2, 0>>, <<3, 0>>, <<2, 1>>, <<2, 2>> >>
      [] shape = "L" /\ r = 0 -> << <<1, 1>>, <<2, 1>>, <<3, 1>>, <<1, 2>> >>
      [] shape = "L" /\ r = 1 -> << <<1, 0>>, <<2, 0>>, <<2, 1>>, <<2, 2>> >>
      [] shape = "L" /\ r = 2 -> << <<3, 0>>, <<1, 1>>, <<2, 1>>, <<3, 1>> >>
      [] shape = "L" /\ r = 3 -> << <<2, 0>>, <<2, 1>>, <<2, 2>>, <<3, 2>> >>
      [] shape = "S" /\ r \in {0, 2} -> << <<2, 1>>, <<3, 1>>, <<1, 2>>, <<2, 2>> >>
      [] shape = "S" /\ r \in {1, 3} -> << <<2, 0>>, <<2, 1>>, <<3, 1>>, <<3, 2>> >>
      [] shape = "Z" /\ r \in {0, 2} -> << <<1, 1>>, <<2, 1>>, <<2, 2>>, <<3, 2>> >>
      [] shape = "Z" /\ r \in {1, 3} -> << <<3, 0>>, <<2, 1>>, <<3, 1>>, <<2, 2>> >>
      [] shape = "T" /\ r = 0 -> << <<1, 1>>, <<2, 1>>, <<3, 1>>, <<2, 2>> >>
      [] shape = "T" /\ r = 1 -> << <<2, 0>>, <<1, 1>>, <<2, 1>>, <<2, 2>> >>
      [] shape = "T" /\ r = 2 -> << <<2, 0>>, <<1, 1>>, <<2, 1>>, <<3, 1>> >>
      [] shape = "T" /\ r = 3 -> << <<2, 0>>, <<2, 1>>, <<3, 1>>, <<2, 2>> >>

\* Mutant of Shape_width: the width of rotation state 0 whatever the rotation.
Shape_width_unrotated(shape, rotation) ==
    CASE shape = "I" -> 4
      [] shape = "O" -> 2
      [] OTHER -> 3

Shape_width(shape, rotation) ==
    LET r == rotation % 4 IN
    CASE shape = "I" /\ r \in {0, 2} -> 4
      [] shape = "I" /\ r \in {1, 3} -> 1
      [] shape = "O" -> 2
      [] shape \notin {"I", "O"} /\ r \in {0, 2} -> 3
      [] shape \notin {"I", "O"} /\ r \in {1, 3} -> 2

Shape_height(shape, rotation) ==
    LET r == rotation % 4 IN
    CASE shape = "I" /\ r \in {0, 2} -> 1
      [] shape = "I" /\ r \in {1, 3} -> 4
      [] shape = "O" -> 2
      [] shape \notin {"I", "O"} /\ r \in {0, 2} -> 2
      [] shape \notin {"I", "O"} /\ r \in {1, 3} -> 3

(***************************************************************************)
(* tetromino.rs: Tetromino                                                 *)
(***************************************************************************)
ORIGIN == <<3, -1>>

\* Mutant of new_at_origin: the tetromino is spawned a quarter turn on.
new_at_origin_turned(shape) == [position |-> ORIGIN, rotation |-> 1, shape |-> shape]

new_at_origin(shape) == [position |-> ORIGIN, rotation |-> 0, shape |-> shape]

\* Tetromino::squares: the shape's squares, each offset by the position.
squares(t) ==
    LET s == Shape_squares(t.shape, t.rotation) IN
    [i \in 1..4 |-> <<s[i][1] + t.position[1], s[i][2] + t.position[2]>>]

\* Mutant of rotated: u8::saturating_add_signed
rotated_saturating(t, by) ==
    [t EXCEPT !.rotation =
        IF t.rotation + by < 0 THEN 0
        ELSE IF t.rotation + by > U8 - 1 THEN U8 - 1
        ELSE t.rotation + by]

\* u8::wrapping_add_signed
rotated(t, by) == [t EXCEPT !.rotation = (t.rotation + by) % U8]

\* Mutant of moved: a move that would take the position off the board's
\* columns is not made.
moved_within_columns(t, by) ==
    IF t.position[1] + by[1] \in (-3)..(WIDTH - 1)
    THEN [t EXCEPT !.position = <<t.position[1] + by[1], t.position[2] + by[2]>>]
    ELSE t

moved(t, by) ==
    [t EXCEPT !.position = <<t.position[1] + by[1], t.position[2] + by[2]>>]

(***************************************************************************)
(* grid.rs: Grid<T>, row-major, indices from 0 (raw is indexed from 1).    *)
(***************************************************************************)
filled_with(value, width, height) ==
    [raw |-> [i \in 1..(width * height) |-> value], width |-> width, height |-> height]

index_of(grid, x, y) == y * grid.width + x

\* The None that Grid::get returns for an index out of bounds.
OutOfBounds == "OutOfBounds"

Grid_get(grid, x, y) ==
    IF y >= grid.height \/ x >= grid.width
    THEN OutOfBounds
    ELSE grid.raw[index_of(grid, x, y) + 1]

\* Grid::set panics exactly when this holds.
Grid_set_panics(grid, x, y) == y >= grid.height \/ x >= grid.width

\* Grid::set on an index in bounds.
Grid_set(grid, x, y, value) ==
    [grid EXCEPT !.raw[index_of(grid, x, y) + 1] = value]

\* `n as usize` for an i32 n.
as_usize(n) == IF n < 0 THEN n + USIZE_MODULUS ELSE n

(***************************************************************************)
(* board.rs: Board                                                         *)
(***************************************************************************)
empty == [grid |-> filled_with(None, WIDTH, HEIGHT)]

\* Mutant of square_fits: the test for the rows above the board forgets x.
square_fits_any_x(board, square) ==
    IF square[2] < 0
    THEN TRUE
    ELSE LET value == Grid_get(board.grid, as_usize(square[1]), as_usize(square[2]))
         IN  value = None

\* The test of one square in the loop of Board::can_fit.
square_fits(board, square) ==
    IF square[2] < 0 /\ square[1] >= 0 /\ square[1] < WIDTH
    THEN TRUE
    ELSE LET value == Grid_get(board.grid, as_usize(square[1]), as_usize(square[2]))
         IN  value = None

can_fit(board, tetromino) ==
    \A i \in 1..4 : square_fits(board, squares(tetromino)[i])

\* The loop of Board::place from square i on; stops at a panic of Grid::set.
RECURSIVE place_from(_, _, _)
place_from(board, tetromino, i) ==
    IF i > 4 THEN [board |-> board, panic |-> FALSE]
    ELSE LET square == squares(tetromino)[i] IN
         IF square[2] < 0 THEN place_from(board, tetromino, i + 1)
         ELSE IF Grid_set_panics(board.grid, as_usize(square[1]), as_usize(square[2]))
              THEN [board |-> board, panic |-> TRUE]
              ELSE place_from(
                     [board EXCEPT !.grid = Grid_set(board.grid, as_usize(square[1]),
                                                     as_usize(square[2]), tetromino.shape)],
                     tetromino, i + 1)

\* Mutant of place: the first square is not written.
place_skip_first(board, tetromino) == place_from(board, tetromino, 2)

\* Mutant of place: no cell is written.
place_nothing(board, tetromino) == [board |-> board, panic |-> FALSE]

place(board, tetromino) == place_from(board, tetromino, 1)

\* Mutant of row_complete: any() instead of all().
row_complete_any(grid, row) ==
    \E i \in 0..(grid.width - 1) : Grid_get(grid, i, row) # None

row_complete(grid, row) ==
    \A i \in 0..(grid.width - 1) : Grid_get(grid, i, row) # None

\* "Clear row": set(x, row, None) for every x.
clear_row(grid, row) ==
    [grid EXCEPT !.raw = [i \in 1..Len(grid.raw) |->
        IF (i - 1) \div grid.width = row THEN None ELSE grid.raw[i]]]

\* One pass of the inner x loop of "shift above rows down" for one row: row 0
\* is cleared, any other row takes the cells of the row above it.
shift_row(grid, row) ==
    [grid EXCEPT !.raw = [i \in 1..Len(grid.raw) |->
        IF (i - 1) \div grid.width # row THEN grid.raw[i]
        ELSE IF row = 0 THEN None
        ELSE grid.raw[i - grid.width]]]

\* Mutant of shift_down: only the cleared row takes the row above it.
shift_down_once(grid, row) == shift_row(grid, row)

\* for row in (0..=row).rev()
RECURSIVE shift_down(_, _)
shift_down(grid, row) ==
    IF row = 0 THEN shift_row(grid, 0)
    ELSE shift_down(shift_row(grid, row), row - 1)

\* Mutant of clear_from: the rows are scanned from the bottom to the top.
RECURSIVE clear_from_upwards(_, _, _)
clear_from_upwards(grid, row, rows_cleared) ==
    IF row >= grid.height THEN [grid |-> grid, rows_cleared |-> rows_cleared]
    ELSE IF row_complete(grid, grid.height - 1 - row)
         THEN clear_from_upwards(
                 shift_down(clear_row(grid, grid.height - 1 - row), grid.height - 1 - row),
                 row + 1, (rows_cleared + 1) % U8)
         ELSE clear_from_upwards(grid, row + 1, rows_cleared)

\* for row in 0..height, with the u8 counter rows_cleared
RECURSIVE clear_from(_, _, _)
clear_from(grid, row, rows_cleared) ==
    IF row >= grid.height THEN [grid |-> grid, rows_cleared |-> rows_cleared]
    ELSE IF row_complete(grid, row)
         THEN clear_from(shift_down(clear_row(grid, row), row), row + 1,
                         (rows_cleared + 1) % U8)
         ELSE clear_from(grid, row + 1, rows_cleared)

\* The indices (x, y) on which clear_complete may call get(x, y).unwrap():
\* (i, row) for every row in the test for completeness, and (x, row - 1) for
\* every row but row 0 in the shift.
unwrapped(grid) ==
    {<<i, row>> : i \in 0..(grid.width - 1), row \in 0..(grid.height - 1)}
        \cup {<<x, row - 1>> : x \in 0..(grid.width - 1), row \in 1..(grid.height - 1)}

\* Mutant of clear_complete: the scan stops after the first complete row.
clear_complete_first_only(board) ==
    LET complete == {row \in 0..(board.grid.height - 1) : row_complete(board.grid, row)} IN
    IF complete = {} THEN [board |-> board, rows_cleared |-> 0]
    ELSE LET row == CHOOSE r \in complete : \A q \in complete : r <= q
         IN  [board |-> [board EXCEPT !.grid = shift_down(clear_row(board.grid, row), row)],
              rows_cleared |-> 1]

\* Board::clear_complete: the board afterwards and the returned count.
clear_complete(board) ==
    LET r == clear_from(board.grid, 0, 0)
    IN  [board |-> [board EXCEPT !.grid = r.grid], rows_cleared |-> r.rows_cleared]

(***************************************************************************)
(* game.rs: Game.  A game value is the record of the fields board,         *)
(* falling_tetromino, next_shape, ticks_elapsed, score, level and          *)
(* rows_cleared; the render fields are left out.                           *)
(***************************************************************************)
\* Mutant of Game_new: the session starts on level 1.
Game_new_level_one(falling_shape, next) ==
    [board |-> empty,
     falling_tetromino |-> new_at_origin(falling_shape),
     next_shape |-> next,
     ticks_elapsed |-> 0,
     score |-> 0,
     level |-> 1,
     rows_cleared |-> 0]

Game_new(falling_shape, next) ==
    [board |-> empty,
     falling_tetromino |-> new_at_origin(falling_shape),
     next_shape |-> next,
     ticks_elapsed |-> 0,
     score |-> 0,
     level |-> 0,
     rows_cleared |-> 0]

\* Mutant of calc_score_panics: four rows at once are taken for impossible.
calc_score_panics_above_three(rows_cleared) == rows_cleared \notin 0..3

\* calc_score panics exactly when this holds.
calc_score_panics(rows_cleared) == rows_cleared \notin 0..4

\* Mutant of calc_score: the table doubled.
calc_score_doubled(rows_cleared) ==
    CASE rows_cleared = 0 -> 0
      [] rows_cleared = 1 -> 80
      [] rows_cleared = 2 -> 200
      [] rows_cleared = 3 -> 600
      [] rows_cleared = 4 -> 2400

\* Mutant of calc_score: 40 points for every row.
calc_score_per_row(rows_cleared) == 40 * rows_cleared

calc_score(rows_cleared) ==
    CASE rows_cleared = 0 -> 0
      [] rows_cleared = 1 -> 40
      [] rows_cleared = 2 -> 100
      [] rows_cleared = 3 -> 300
      [] rows_cleared = 4 -> 1200

\* Mutant of try_rotate: a rotation that does not fit is tried again one row
\* higher.
try_rotate_kick(game, by) ==
    LET rotated_ == rotated(game.falling_tetromino, by) IN
    IF can_fit(game.board, rotated_)
    THEN [game EXCEPT !.falling_tetromino = rotated_]
    ELSE IF can_fit(game.board, moved(rotated_, <<0, -1>>))
    THEN [game EXCEPT !.falling_tetromino = moved(rotated_, <<0, -1>>)]
    ELSE game

\* Mutant of try_rotate: a rotation that is made restarts the fall timer.
try_rotate_resets_timer(game, by) ==
    LET rotated_ == rotated(game.falling_tetromino, by) IN
    IF can_fit(game.board, rotated_)
    THEN [game EXCEPT !.falling_tetromino = rotated_, !.ticks_elapsed = 0]
    ELSE game

\* Mutant of try_rotate: a rejected rotation costs the next shape, which
\* becomes the falling one's.
try_rotate_swaps_next(game, by) ==
    LET rotated_ == rotated(game.falling_tetromino, by) IN
    IF can_fit(game.board, rotated_)
    THEN [game EXCEPT !.falling_tetromino = rotated_]
    ELSE [game EXCEPT !.next_shape = game.falling_tetromino.shape]

try_rotate(game, by) ==
    LET rotated_ == rotated(game.falling_tetromino, by) IN
    IF can_fit(game.board, rotated_)
    THEN [game EXCEPT !.falling_tetromino = rotated_]
    ELSE game

\* Mutant of try_move: the move is made without asking can_fit.
try_move_unchecked(game, by) ==
    [game |-> [game EXCEPT !.falling_tetromino = moved(game.falling_tetromino, by),
                           !.ticks_elapsed = IF by[2] > 0 THEN 0 ELSE @],
     ok |-> can_fit(game.board, moved(game.falling_tetromino, by))]

\* Mutant of try_move: every successful move resets the tick counter.
try_move_resets_timer(game, by) ==
    LET moved_ == moved(game.falling_tetromino, by) IN
    IF can_fit(game.board, moved_)
    THEN [game |-> [game EXCEPT !.falling_tetromino = moved_, !.ticks_elapsed = 0],
          ok |-> TRUE]
    ELSE [game |-> game, ok |-> FALSE]

\* Game::try_move: the game afterwards and the returned bool.
try_move(game, by) ==
    LET moved_ == moved(game.falling_tetromino, by) IN
    IF can_fit(game.board, moved_)
    THEN [game |-> [game EXCEPT !.falling_tetromino = moved_,
                                !.ticks_elapsed = IF by[2] > 0 THEN 0 ELSE @],
          ok |-> TRUE]
    ELSE [game |-> game, ok |-> FALSE]

\* What a handler reports besides the game: whether it panicked, whether it
\* printed "Game over!", and, when it ran finalize, the tetromino given to
\* Board::place and the count clear_complete returned.
NoFinalize(game) ==
    [game |-> game, panic |-> FALSE, printed |-> FALSE, finalized |-> FALSE,
     placed |-> game.falling_tetromino, rows |-> 0]

\* Mutant of finalize: the game-over test looks at the board as it was before
\* the falling tetromino was placed.
finalize_test_before_place(game, shape) ==
    LET p == place(game.board, game.falling_tetromino)
        c == clear_complete(p.board)
        spawned == new_at_origin(game.next_shape)
    IN  [game |-> [game EXCEPT !.board = c.board,
                               !.rows_cleared = @ + c.rows_cleared,
                               !.score = @ + calc_score(c.rows_cleared),
                               !.falling_tetromino = spawned,
                               !.next_shape = shape],
         panic |-> FALSE, printed |-> ~can_fit(game.board, spawned), finalized |-> TRUE,
         placed |-> game.falling_tetromino, rows |-> c.rows_cleared]

\* Mutant of finalize: the tetromino spawned has the shape just drawn, not the
\* shape that was announced as next.
finalize_spawns_drawn(game, shape) ==
    LET p == place(game.board, game.falling_tetromino)
        c == clear_complete(p.board)
        spawned == new_at_origin(shape)
    IN  [game |-> [game EXCEPT !.board = c.board,
                               !.rows_cleared = @ + c.rows_cleared,
                               !.score = @ + calc_score(c.rows_cleared),
                               !.falling_tetromino = spawned,
                               !.next_shape = shape],
         panic |-> FALSE, printed |-> ~can_fit(c.board, spawned), finalized |-> TRUE,
         placed |-> game.falling_tetromino, rows |-> c.rows_cleared]

\* Mutant of finalize: a finalize that clears rows raises the level.
finalize_levels_up(game, shape) ==
    LET p == place(game.board, game.falling_tetromino)
        c == clear_complete(p.board)
        spawned == new_at_origin(game.next_shape)
    IN  [game |-> [game EXCEPT !.board = c.board,
                               !.rows_cleared = @ + c.rows_cleared,
                               !.score = @ + calc_score(c.rows_cleared),
                               !.level = IF c.rows_cleared > 0 THEN @ + 1 ELSE @,
                               !.falling_tetromino = spawned,
                               !.next_shape = shape],
         panic |-> FALSE, printed |-> ~can_fit(c.board, spawned), finalized |-> TRUE,
         placed |-> game.falling_tetromino, rows |-> c.rows_cleared]

\* Game::finalize, with `shape` the value Shape::random() returns in it.
finalize(game, shape) ==
    LET p == place(game.board, game.falling_tetromino)
        c == clear_complete(p.board)
        spawned == new_at_origin(game.next_shape)
        base == [game |-> game, panic |-> FALSE, printed |-> FALSE, finalized |-> TRUE,
                 placed |-> game.falling_tetromino, rows |-> 0]
    IN  IF p.panic
        THEN [base EXCEPT !.game.board = p.board, !.panic = TRUE]
        ELSE IF calc_score_panics(c.rows_cleared)
        THEN [base EXCEPT !.game.board = c.board,
                          !.game.rows_cleared = @ + c.rows_cleared,
                          !.rows = c.rows_cleared,
                          !.panic = TRUE]
        ELSE [base EXCEPT !.game.board = c.board,
                          !.game.rows_cleared = @ + c.rows_cleared,
                          !.game.score = @ + calc_score(c.rows_cleared),
                          !.game.falling_tetromino = spawned,
                          !.game.next_shape = shape,
                          !.rows = c.rows_cleared,
                          !.printed = ~can_fit(c.board, spawned)]

\* Mutant of drop_loop: after the last move down that fits, the tetromino
\* goes one more row down.
RECURSIVE drop_loop_one_more(_)
drop_loop_one_more(game) ==
    LET m == try_move(game, <<0, 1>>) IN
    IF m.ok THEN drop_loop_one_more(m.game)
    ELSE [m.game EXCEPT !.falling_tetromino = moved(@, <<0, 1>>)]

\* Mutant of drop_loop: the tetromino moves down one row at most.
drop_loop_once(game) == try_move(game, <<0, 1>>).game

\* while self.try_move(ivec2(0, 1)) {}
RECURSIVE drop_loop(_)
drop_loop(game) ==
    LET m == try_move(game, <<0, 1>>) IN
    IF m.ok THEN drop_loop(m.game) ELSE m.game

\* Mutant of drop: the fall timer is restarted for the next tetromino.
drop_resets_timer(game, shape) ==
    finalize([drop_loop(game) EXCEPT !.ticks_elapsed = 0], shape)

drop(game, shape) == finalize(drop_loop(game), shape)

fall(game, shape) ==
    LET m == try_move(game, <<0, 1>>) IN
    IF m.ok THEN NoFinalize(m.game) ELSE finalize(m.game, shape)

\* Mutant of tick: the 60th tick calls fall without resetting the counter.
tick_keeps_count(game, shape) ==
    LET t == game.ticks_elapsed + 1 IN
    IF t = FALL_TICKS
    THEN fall([game EXCEPT !.ticks_elapsed = t], shape)
    ELSE NoFinalize([game EXCEPT !.ticks_elapsed = t])

\* Mutant of tick: the fall comes one tick late.
tick_late(game, shape) ==
    LET t == game.ticks_elapsed + 1 IN
    IF t = FALL_TICKS + 1
    THEN fall([game EXCEPT !.ticks_elapsed = 0], shape)
    ELSE NoFinalize([game EXCEPT !.ticks_elapsed = t])

tick(game, shape) ==
    LET t == game.ticks_elapsed + 1 IN
    IF t = FALL_TICKS
    THEN fall([game EXCEPT !.ticks_elapsed = 0], shape)
    ELSE NoFinalize([game EXCEPT !.ticks_elapsed = t])

(***************************************************************************)
(* The session.                                                            *)
(*   game       the Game value                                             *)
(*   game_over  "Game over! ..." has been printed (finalize, game.rs:130)  *)
(*   panicked   a panic has ended the program                              *)
(*   last       the handler that ran last and what it reported             *)
(*   book, keys, drops, ticks   the player and the clock, see below       *)
(*   call       the call made in SpecBoard, SpecGrid and SpecScenes        *)
(***************************************************************************)
VARIABLES game, game_over, panicked, last, book, keys, drops, ticks, call

vars == <<game, game_over, panicked, last, book, keys, drops, ticks, call>>

(***************************************************************************)
(* The player.  The program is driven by key presses and by the 60 Hz      *)
(* clock.  To keep the reachable states finite and still reach full rows   *)
(* and a board piled up to the top on the 10 x 20 board, a run starts with *)
(* an opening: a fixed sequence of key presses during which every          *)
(* tetromino drawn is an I.  After the opening the player presses any keys *)
(* and the clock ticks, within MaxKeys, MaxDrops and MaxTicks, and         *)
(* Shape::random() draws any shape of `random`.                            *)
(***************************************************************************)
Rep(key, n) == [i \in 1..n |-> key]

\* Stand an I upright and drop it into column c.
Column(c) ==
    <<"cw">> \o (IF c < 5 THEN Rep("left", 5 - c) ELSE Rep("right", c - 5)) \o <<"drop">>

\* Rows 16..19 full except for column 5.  The first I is pushed once more to
\* the left when it already stands at the wall.
Well ==
    <<"cw">> \o Rep("left", 6) \o <<"drop">> \o Column(1) \o Column(2) \o Column(3) \o Column(4) \o
    Column(6) \o Column(7) \o Column(8) \o Column(9)

\* Column 5 filled in rows 4..19, and an I lying on top of it in row 3.
Tower == Column(5) \o Column(5) \o Column(5) \o Column(5) \o <<"drop">>

\* One more I on top, in row 2: a tetromino at the origin cannot move down.
HighTower == Tower \o <<"drop">>

\* The openings with a tower end with ticks, so that the fall timer is about
\* to expire when the player takes over; so does the opening that only waits.
Openings ==
    {<< >>, Well, Tower \o Rep("tick", FALL_TICKS - 2),
     HighTower \o Rep("tick", FALL_TICKS - 1), Rep("tick", FALL_TICKS - 1)}

DropsLeft(b) == Cardinality({i \in 1..Len(b) : b[i] = "drop"})

\* The shapes Shape::random() may return in a finalize run with book b.
Draws(b) == IF DropsLeft(b) >= 3 THEN {VARIANTS[1]} ELSE random

\* The player presses `key` now, or the clock ticks (key = "tick").
Presses(key) ==
    /\ ~panicked
    /\ IF book # << >> THEN Head(book) = key
       ELSE CASE key = "drop" -> drops < MaxDrops
              [] key = "tick" -> ticks < MaxTicks
              [] OTHER -> keys < MaxKeys

\* Bookkeeping of a handler that reported r after a key press (key # "tick")
\* or a tick.
Played(key, r) ==
    /\ book' = IF book # << >> THEN Tail(book) ELSE book
    /\ keys' = IF book = << >> /\ key \notin {"drop", "tick"} THEN keys + 1 ELSE keys
    /\ drops' = IF book = << >> /\ key = "drop" THEN drops + 1 ELSE drops
    /\ ticks' = IF book = << >> /\ key = "tick" THEN ticks + 1 ELSE ticks

\* The handler op, called with arg (<<by>> of try_rotate, <<x, y>> of try_move,
\* << >> otherwise), reported r; ok tells whether its try_rotate or try_move
\* took the branch that changes the falling tetromino (for try_move: the bool
\* it returned), and is FALSE for the other handlers.
Report(op, arg, ok, r) ==
    /\ game' = r.game
    /\ game_over' = (game_over \/ r.printed)
    /\ panicked' = r.panic
    /\ last' = [op |-> op, arg |-> arg, ok |-> ok, finalized |-> r.finalized,
                placed |-> r.placed, rows |-> r.rows, printed |-> r.printed]

\* In Spec no call of SpecBoard is made.
NoCall ==
    [op |-> "none", board |-> empty, tetromino |-> new_at_origin(VARIANTS[1]),
     ret |-> 0, after |-> empty, panic |-> FALSE]

\* Game::new, game.rs:31-48
Init ==
    /\ book \in Openings
    /\ \E falling \in (IF DropsLeft(book) >= 1 THEN {VARIANTS[1]} ELSE random),
          next \in (IF DropsLeft(book) >= 2 THEN {VARIANTS[1]} ELSE random) :
          /\ game = Game_new(falling, next)
          /\ last = [op |-> "new", arg |-> << >>, ok |-> FALSE, finalized |-> FALSE,
                     placed |-> new_at_origin(falling), rows |-> 0, printed |-> FALSE]
    /\ game_over = FALSE
    /\ panicked = FALSE
    /\ keys = 0
    /\ drops = 0
    /\ ticks = 0
    /\ call = NoCall

\* keyboard_input: rotate counterclockwise (by = -1) or clockwise (by = 1)
RotateKey(by) ==
    /\ Presses(IF by = 1 THEN "cw" ELSE "ccw")
    /\ \E r \in {NoFinalize(try_rotate(game, by))} :
         /\ Report("rotate", <<by>>, r.game.falling_tetromino # game.falling_tetromino, r)
         /\ Played("rotate", r)
    /\ UNCHANGED call

KeyOf(by) ==
    CASE by = <<-1, 0>> -> "left"
      [] by = <<1, 0>> -> "right"
      [] by = <<0, 1>> -> "down"

\* keyboard_input: move left, right or down
MoveKey(by) ==
    /\ Presses(KeyOf(by))
    /\ \E m \in {try_move(game, by)} :
         Report("move", by, m.ok, NoFinalize(m.game)) /\ Played("move", m)
    /\ UNCHANGED call

\* keyboard_input: drop
DropKey ==
    /\ Presses("drop")
    /\ \E shape \in Draws(book) :
         \E r \in {drop(game, shape)} : Report("drop", << >>, FALSE, r) /\ Played("drop", r)
    /\ UNCHANGED call

\* Game::tick, called once per frame
Tick ==
    /\ Presses("tick")
    /\ \E shape \in Draws(book) :
         \E r \in {tick(game, shape)} : Report("tick", << >>, FALSE, r) /\ Played("tick", r)
    /\ UNCHANGED call

Next ==
    \/ \E by \in {-1, 1} : RotateKey(by)
    \/ \E by \in {<<-1, 0>>, <<1, 0>>, <<0, 1>>} : MoveKey(by)
    \/ DropKey
    \/ Tick

Spec == Init /\ [][Next]_vars

(***************************************************************************)
(* SpecDrops: from Game::new the player does nothing but press the drop    *)
(* key, again and again until "Game over!" is printed; Shape::random()     *)
(* draws any shape of `random` each time.                                  *)
(***************************************************************************)
InitDrops == Init /\ book = << >>

\* keyboard_input: drop, pressed as long as no game over has been printed
DropAgain ==
    /\ ~game_over
    /\ ~panicked
    /\ \E shape \in random :
         \E r \in {drop(game, shape)} : Report("drop", << >>, FALSE, r)
    /\ UNCHANGED <<book, keys, drops, ticks, call>>

NextDrops == DropAgain

SpecDrops == InitDrops /\ [][NextDrops]_vars

(***************************************************************************)
(* SpecFalls: the first falling tetromino of a session.  The clock ticks   *)
(* and the player presses the rotate and move keys in any order and        *)
(* without end, until a handler runs finalize.  The player turns the       *)
(* tetromino between the rotation 0 of the spawn and MaxTurn quarter turns *)
(* clockwise, forth and back.  The next shape, which plays no part before  *)
(* the finalize, is the first of VARIANTS.                                 *)
(***************************************************************************)
InitFalls == Init /\ book = << >> /\ game.next_shape = VARIANTS[1]

\* The tetromino has not been finalized yet.
Falling == ~last.finalized /\ ~panicked

\* The rotation values the player turns the tetromino to.
NearSpawn == 0..MaxTurn

\* keyboard_input: a rotate key
KeepRotating(by) ==
    /\ Falling
    /\ (game.falling_tetromino.rotation + by) % U8 \in NearSpawn
    /\ \E r \in {NoFinalize(try_rotate(game, by))} :
         Report("rotate", <<by>>, r.game.falling_tetromino # game.falling_tetromino, r)
    /\ UNCHANGED <<book, keys, drops, ticks, call>>

\* keyboard_input: a move key
KeepMoving(by) ==
    /\ Falling
    /\ \E m \in {try_move(game, by)} : Report("move", by, m.ok, NoFinalize(m.game))
    /\ UNCHANGED <<book, keys, drops, ticks, call>>

\* Game::tick
ClockTick ==
    /\ Falling
    /\ \E shape \in random :
         \E r \in {tick(game, shape)} : Report("tick", << >>, FALSE, r)
    /\ UNCHANGED <<book, keys, drops, ticks, call>>

NextFalls ==
    \/ \E by \in {-1, 1} : KeepRotating(by)
    \/ \E by \in {<<-1, 0>>, <<1, 0>>, <<0, 1>>} : KeepMoving(by)
    \/ ClockTick

SpecFalls == InitFalls /\ [][NextFalls]_vars

(***************************************************************************)
(* SpecBoard: one call of a Board method on a board and a tetromino drawn  *)
(* from bounded families.  `call` holds the board from the start and       *)
(* records the method called, the tetromino and the results.               *)
(***************************************************************************)
Backgrounds == {"empty", "holes", "pile", "left"}

\* A board: the rows of `full` are complete, the other rows follow the
\* background: empty; one hole per row, at a column that moves with the row;
\* scattered cells in the lower half; the left half of every row occupied.
BoardOf(full, background) ==
    [grid |->
       [raw |-> [i \in 1..(WIDTH * HEIGHT) |->
                   LET x == (i - 1) % WIDTH
                       y == (i - 1) \div WIDTH
                       kind == VARIANTS[((x + 2 * y) % Len(VARIANTS)) + 1]
                   IN  IF y \in full THEN kind
                       ELSE CASE background = "empty" -> None
                              [] background = "holes" ->
                                   IF x = y % WIDTH THEN None ELSE kind
                              [] background = "pile" ->
                                   IF y >= HEIGHT \div 2 /\ (x + y) % 3 # 0 THEN kind ELSE None
                              [] background = "left" ->
                                   IF x < WIDTH \div 2 THEN kind ELSE None],
        width |-> WIDTH, height |-> HEIGHT]]

\* Boards for can_fit and place.
FitBoards ==
    {BoardOf({}, background) : background \in Backgrounds}
        \cup {BoardOf({0}, "empty"), BoardOf({HEIGHT - 1}, "holes")}

\* Boards for clear_complete: up to MaxFull complete rows anywhere.
ClearBoards ==
    {BoardOf(full, background) :
        full \in {f \in SUBSET (0..(HEIGHT - 1)) : Cardinality(f) <= MaxFull},
        background \in Backgrounds}

\* Every shape and rotation state, at every position of the top rows and of
\* the bottom rows whose 4x4 frame reaches at most MaxOut beyond the board.
Tetrominoes ==
    {[position |-> <<x, y>>, rotation |-> rotation, shape |-> shape] :
        x \in (-3 - MaxOut)..(WIDTH - 1 + MaxOut),
        y \in ((-3 - MaxOut)..2) \cup ((HEIGHT - 6)..(HEIGHT - 1 + MaxOut)),
        rotation \in 0..3,
        shape \in Shapes}

\* The board whose rows are all complete.
FullBoard == BoardOf(0..(HEIGHT - 1), "empty")

Call(op, board, tetromino, ret, after, panic) ==
    [op |-> op, board |-> board, tetromino |-> tetromino, ret |-> ret,
     after |-> after, panic |-> panic]

InitBoard ==
    /\ game = Game_new(VARIANTS[1], VARIANTS[1])
    /\ last = [op |-> "new", arg |-> << >>, ok |-> FALSE, finalized |-> FALSE,
               placed |-> new_at_origin(VARIANTS[1]), rows |-> 0, printed |-> FALSE]
    /\ game_over = FALSE
    /\ panicked = FALSE
    /\ book = << >>
    /\ keys = 0
    /\ drops = 0
    /\ ticks = 0
    /\ \E board \in ClearBoards \cup {FullBoard} :
         call = Call("none", board, new_at_origin(VARIANTS[1]), 0, board, FALSE)

session == <<game, game_over, panicked, last, book, keys, drops, ticks>>

\* board.can_fit(tetromino); ret is the returned bool
CallCanFit ==
    /\ call.op = "none"
    /\ call.board \in FitBoards
    /\ \E tetromino \in Tetrominoes :
         call' = Call("can_fit", call.board, tetromino, can_fit(call.board, tetromino),
                      call.board, FALSE)
    /\ UNCHANGED session

\* board.place(tetromino); after is the board afterwards
CallPlace ==
    /\ call.op = "none"
    /\ call.board \in FitBoards
    /\ \E tetromino \in Tetrominoes :
         \E p \in {place(call.board, tetromino)} :
            call' = Call("place", call.board, tetromino, 0, p.board, p.panic)
    /\ UNCHANGED session

\* board.clear_complete(); ret is the returned count
CallClearComplete ==
    /\ call.op = "none"
    /\ \E c \in {clear_complete(call.board)} :
         call' = Call("clear_complete", call.board, call.tetromino,
                      c.rows_cleared, c.board, FALSE)
    /\ UNCHANGED session

\* tetromino.rotated(by) four times over, for by = 1 or -1 and a tetromino
\* with any rotation value a u8 can hold; ret is the tetromino returned last
CallRotated ==
    /\ call.op = "none"
    /\ call.board = empty
    /\ \E shape \in Shapes, rotation \in 0..(U8 - 1), by \in {-1, 1},
          position \in {ORIGIN, <<WIDTH - 3, HEIGHT - 2>>} :
          \E t \in {[position |-> position, rotation |-> rotation, shape |-> shape]} :
             call' = Call("rotated", call.board, t,
                          rotated(rotated(rotated(rotated(t, by), by), by), by),
                          call.board, FALSE)
    /\ UNCHANGED session

\* tetromino.rotated(by) and then .rotated(-by) on the result, for by = 1 or
\* -1; ret holds by, the tetromino after the first call and the one after
\* the second
CallTurn ==
    /\ call.op = "none"
    /\ call.board = empty
    /\ \E shape \in Shapes, rotation \in 0..(U8 - 1), by \in {-1, 1} :
          \E t \in {[position |-> ORIGIN, rotation |-> rotation, shape |-> shape]} :
             call' = Call("turn", call.board, t,
                          [by |-> by, once |-> rotated(t, by),
                           back |-> rotated(rotated(t, by), -by)],
                          call.board, FALSE)
    /\ UNCHANGED session

\* board.place(tetromino) for a tetromino that fits, and then
\* board.can_fit(tetromino); ret is the bool can_fit returned
CallPlaceCanFit ==
    /\ call.op = "none"
    /\ call.board \in FitBoards
    /\ \E tetromino \in Tetrominoes :
         /\ can_fit(call.board, tetromino)
         /\ \E p \in {place(call.board, tetromino)} :
               call' = Call("place_can_fit", call.board, tetromino,
                            can_fit(p.board, tetromino), p.board, p.panic)
    /\ UNCHANGED session

\* shape.squares(rotation), shape.width(rotation) and shape.height(rotation)
\* for any u8 rotation; ret holds the three results
CallShape ==
    /\ call.op = "none"
    /\ call.board = empty
    /\ \E shape \in Shapes, rotation \in 0..(U8 - 1) :
          call' = Call("shape", call.board,
                       [position |-> <<0, 0>>, rotation |-> rotation, shape |-> shape],
                       [squares |-> Shape_squares(shape, rotation),
                        width |-> Shape_width(shape, rotation),
                        height |-> Shape_height(shape, rotation)],
                       call.board, FALSE)
    /\ UNCHANGED session

\* The moves tried on single tetrominoes: the three of the keys, and two that
\* lead far off the board.
Deltas == {<<0, 1>>, <<-1, 0>>, <<1, 0>>, <<-2 * WIDTH, 3>>, <<5 * WIDTH, -2 * HEIGHT>>}

\* tetromino.squares(), .moved(a), .moved(a).moved(b), .moved(a + b),
\* .rotated(by), .moved(a).rotated(by) and .rotated(by).moved(a); ret holds
\* the arguments and the results
CallTransform ==
    /\ call.op = "none"
    /\ call.board = empty
    /\ \E shape \in Shapes, rotation \in {0, 1, 2, 3, U8 - 1}, by \in {-1, 1},
          position \in {ORIGIN, <<-2, HEIGHT - 1>>}, a \in Deltas, b \in Deltas :
          \E t \in {[position |-> position, rotation |-> rotation, shape |-> shape]} :
             call' = Call("transform", call.board, t,
                          [a |-> a, b |-> b, by |-> by,
                           squares |-> squares(t),
                           moved |-> moved(t, a),
                           moved_squares |-> squares(moved(t, a)),
                           twice |-> moved(moved(t, a), b),
                           sum |-> moved(t, <<a[1] + b[1], a[2] + b[2]>>),
                           rotated |-> rotated(t, by),
                           moved_rotated |-> rotated(moved(t, a), by),
                           rotated_moved |-> moved(rotated(t, by), a)],
                          call.board, FALSE)
    /\ UNCHANGED session

\* board.clear_complete() twice in a row; ret holds the two counts and
\* `between` the board after the first call
CallClearTwice ==
    /\ call.op = "none"
    /\ \E first \in {clear_complete(call.board)} :
         \E second \in {clear_complete(first.board)} :
            call' = Call("clear_twice", call.board, call.tetromino,
                         [first |-> first.rows_cleared, between |-> first.board,
                          second |-> second.rows_cleared],
                         second.board, FALSE)
    /\ UNCHANGED session

\* Tetromino::new_at_origin(shape), the tetromino's squares(), and can_fit of
\* it on the board and on Board::empty(), as Game::finalize asks after a spawn
CallSpawn ==
    /\ call.op = "none"
    /\ call.board \in FitBoards
    /\ \E shape \in Shapes :
         \E t \in {new_at_origin(shape)} :
            call' = Call("spawn", call.board, t,
                         [squares |-> squares(t),
                          fits |-> can_fit(call.board, t),
                          fits_empty |-> can_fit(empty, t)],
                         call.board, FALSE)
    /\ UNCHANGED session

NextBoard ==
    \/ CallCanFit
    \/ CallPlace
    \/ CallClearComplete
    \/ CallRotated
    \/ CallTurn
    \/ CallPlaceCanFit
    \/ CallShape
    \/ CallTransform
    \/ CallSpawn
    \/ CallClearTwice

SpecBoard == InitBoard /\ [][NextBoard]_vars

(***************************************************************************)
(* Properties of the Board methods, checked under SpecBoard.               *)
(***************************************************************************)
\* The cell (x, y) of a board, for 0 <= x < WIDTH and 0 <= y < HEIGHT.
Cell(board, x, y) == board.grid.raw[y * WIDTH + x + 1]

Xs == 0..(WIDTH - 1)

Ys == 0..(HEIGHT - 1)

\* A square that can_fit is to accept: above the board with a valid x, or
\* on the board and empty.
SquareOpen(board, square) ==
    \/ square[2] < 0 /\ square[1] \in Xs
    \/ square[1] \in Xs /\ square[2] \in Ys /\ Cell(board, square[1], square[2]) = None

SquaresOf(tetromino) == {squares(tetromino)[i] : i \in 1..4}

\* C1: can_fit returns true if and only if each of the 4 squares is above the
\* board with 0 <= x < WIDTH, or on the board and empty.
C1_CanFitIffSquaresOpen ==
    call.op = "can_fit" =>
        (call.ret <=> \A square \in SquaresOf(call.tetromino) : SquareOpen(call.board, square))

\* C1 witness: can_fit refused a tetromino that lies wholly above the board
\* and has a square with negative x.
C1_Witness ==
    /\ call.op = "can_fit"
    /\ call.ret = FALSE
    /\ \A square \in SquaresOf(call.tetromino) : square[2] < 0
    /\ \E square \in SquaresOf(call.tetromino) : square[1] < 0

CompleteRows(board) == {y \in Ys : \A x \in Xs : Cell(board, x, y) # None}

\* The rows that are not complete, from the top.
Survivors(board) ==
    SelectSeq([i \in 1..HEIGHT |-> i - 1], LAMBDA y : \E x \in Xs : Cell(board, x, y) = None)

\* C5: clear_complete returns the number k of complete rows and leaves k empty
\* rows on top of the rows that were not complete, unchanged and in order.
C5_ClearCompleteCompacts ==
    call.op = "clear_complete" =>
        \A kept \in {Survivors(call.board)} :
            LET k == HEIGHT - Len(kept) IN
            /\ k = Cardinality(CompleteRows(call.board))
            /\ call.ret = k
            /\ \A y \in Ys, x \in Xs :
                 Cell(call.after, x, y) =
                    IF y < k THEN None ELSE Cell(call.board, x, kept[y - k + 1])

\* C5 witness: two or more rows were cleared, and an occupied row that was not
\* complete lay between two of them.
C5_Witness ==
    /\ call.op = "clear_complete"
    /\ call.ret >= 2
    /\ \E full \in {CompleteRows(call.board)} :
         \E a, b \in full, y \in Ys \ full :
            /\ a < y /\ y < b
            /\ \E x \in Xs : Cell(call.board, x, y) # None

\* C6: with no complete row clear_complete returns 0 and changes no cell.
C6_NoCompleteRowNoChange ==
    (call.op = "clear_complete" /\ CompleteRows(call.board) = {}) =>
        call.ret = 0 /\ call.after = call.board

\* C6 witness: clear_complete ran on a board with occupied cells and no
\* complete row.
C6_Witness ==
    /\ call.op = "clear_complete"
    /\ CompleteRows(call.board) = {}
    /\ \E x \in Xs, y \in Ys : Cell(call.board, x, y) # None

\* C9: place of a tetromino that can_fit accepts does not panic, sets exactly
\* the tetromino's squares with y >= 0 to its shape and changes no other cell.
C9_PlaceSettlesSquaresOnBoard ==
    (call.op = "place" /\ can_fit(call.board, call.tetromino)) =>
        /\ ~call.panic
        /\ \A placed \in {SquaresOf(call.tetromino)} :
             \A x \in Xs, y \in Ys :
                Cell(call.after, x, y) =
                   IF <<x, y>> \in placed THEN call.tetromino.shape
                   ELSE Cell(call.board, x, y)

\* C9 witness: a tetromino that fits was placed with squares above row 0 and
\* squares on a board that holds settled cells.
C9_Witness ==
    /\ call.op = "place"
    /\ can_fit(call.board, call.tetromino)
    /\ \E square \in SquaresOf(call.tetromino) : square[2] < 0
    /\ \E square \in SquaresOf(call.tetromino) : square[2] >= 0
    /\ \E x \in Xs, y \in Ys : Cell(call.board, x, y) # None

(***************************************************************************)
(* Properties of the session, checked under Spec.                          *)
(***************************************************************************)
\* C2: in every reachable state each square of the falling tetromino has
\* 0 <= x <= WIDTH - 1 and y <= HEIGHT - 1, and no square with y >= 0 lies on
\* an occupied cell.
C2_FallingInBoundsAndFree ==
    \A square \in SquaresOf(game.falling_tetromino) :
        /\ square[1] \in Xs
        /\ square[2] <= HEIGHT - 1
        /\ square[2] >= 0 => Cell(game.board, square[1], square[2]) = None

\* C2 as amended: the bounds hold in every reachable state; the squares with
\* y >= 0 lie on empty cells as long as no game over has been reported, that
\* is, as long as every tetromino spawned so far passed can_fit.
C2_FallingInBoundsAndFreeUntilGameOver ==
    \A square \in SquaresOf(game.falling_tetromino) :
        /\ square[1] \in Xs
        /\ square[2] <= HEIGHT - 1
        /\ (~game_over /\ square[2] >= 0) => Cell(game.board, square[1], square[2]) = None

\* C2 witness: before any game over, a key press has left the falling
\* tetromino resting on a settled cell.
C2_Witness ==
    /\ ~game_over
    /\ last.op \in {"rotate", "move"}
    /\ \E square \in SquaresOf(game.falling_tetromino) :
         /\ square[2] \in 0..(HEIGHT - 2)
         /\ Cell(game.board, square[1], square[2] + 1) # None

\* C3: once a game over has been reported no handler changes the session any
\* more, and the session stays over.
C3_GameOverIsTerminal ==
    [][game_over => (game' = game /\ game_over')]_vars

\* C4: the session leaves Playing exactly in a finalize whose tetromino
\* spawned from next_shape at the origin fails can_fit on the board left by
\* place and clear_complete; every other step stays in Playing.
C4_GameOverExactlyAtFailedSpawn ==
    [][~game_over =>
         (game_over' <=>
             (last'.finalized /\ ~can_fit(game'.board, new_at_origin(game.next_shape))))]_vars

\* C4 witness: a finalize has just reported the game over.
C4_Witness ==
    /\ game_over
    /\ last.finalized
    /\ last.printed
    /\ ~can_fit(game.board, game.falling_tetromino)

\* C7: between handlers no row of the board is complete.
C7_NoCompleteRowObservable == CompleteRows(game.board) = {}

\* C7 witness: the last handler placed a tetromino that completed rows, and
\* clear_complete cleared them.
C7_Witness ==
    /\ last.finalized
    /\ last.rows >= 1

\* C8: place never changes the occupant of an occupied cell, and a handler
\* that does not finalize changes no cell of the board.
C8_PlaceNeverOverwrites ==
    [][IF last'.finalized
       THEN \A placed \in {place(game.board, last'.placed).board} :
               \A x \in Xs, y \in Ys :
                  Cell(game.board, x, y) # None =>
                     Cell(placed, x, y) = Cell(game.board, x, y)
       ELSE game'.board = game.board]_vars

\* C10: every tetromino that finalize gives to place passes can_fit on the
\* board it is placed on.
C10_PlaceOnlyWhatFits ==
    [][last'.finalized => can_fit(game.board, last'.placed)]_vars

\* The score table: 0, 1, 2, 3, 4 rows give 0, 40, 100, 300, 1200 points.
ScoreFor == <<0, 40, 100, 300, 1200>>

\* C11: a handler that finalizes adds to rows_cleared the count of complete
\* rows that placing the tetromino made and clear_complete returned, and adds
\* the table's points for that count to score; a handler that does not
\* finalize changes neither score nor rows_cleared.
C11_FinalizeAddsRowsAndScore ==
    [][IF last'.finalized
       THEN /\ last'.rows = Cardinality(CompleteRows(place(game.board, last'.placed).board))
            /\ last'.rows \in 0..4
            /\ game'.rows_cleared = game.rows_cleared + last'.rows
            /\ game'.score = game.score + ScoreFor[last'.rows + 1]
       ELSE /\ game'.rows_cleared = game.rows_cleared
            /\ game'.score = game.score]_vars

\* C11 witness: a finalize has cleared four rows at once and the session
\* stands at 4 rows and 1200 points.
C11_Witness ==
    /\ last.finalized
    /\ last.rows = 4
    /\ game.rows_cleared = 4
    /\ game.score = 1200

\* C12: in every run the count clear_complete returns in finalize lies in
\* 0..4 and no panic happens, so the panic branch of calc_score is never taken.
C12_RowsClearedAtMostFour ==
    /\ ~panicked
    /\ last.rows \in 0..4

\* C12 witness: clear_complete returned 4 in a finalize that was a hard drop,
\* and the program goes on.
C12_Witness ==
    /\ last.op = "drop"
    /\ last.rows = 4
    /\ ~panicked

\* The fields of a game other than the falling tetromino and the tick counter.
Rest(g) == <<g.board, g.next_shape, g.score, g.level, g.rows_cleared>>

\* C13: a move key's try_move(by) returns true if and only if the falling
\* tetromino shifted by `by` (same rotation, same shape) passes can_fit on the
\* board; then the falling tetromino becomes exactly that one and the board,
\* next shape, score, level and rows_cleared keep their values; when it
\* returns false nothing changes.
C13_TryMoveIffFits ==
    [][last'.op = "move" =>
         \A target \in {[position |-> <<game.falling_tetromino.position[1] + last'.arg[1],
                                        game.falling_tetromino.position[2] + last'.arg[2]>>,
                          rotation |-> game.falling_tetromino.rotation,
                          shape |-> game.falling_tetromino.shape]} :
            /\ last'.ok <=> can_fit(game.board, target)
            /\ ~last'.finalized
            /\ IF last'.ok
               THEN game'.falling_tetromino = target /\ Rest(game') = Rest(game)
               ELSE game' = game
            /\ game_over' = game_over
            /\ panicked' = panicked]_vars

\* C13 witness: a move to the left was refused for a tetromino that stands at
\* the left wall.
C13_Witness ==
    /\ last.op = "move"
    /\ last.arg = <<-1, 0>>
    /\ ~last.ok
    /\ \E square \in SquaresOf(game.falling_tetromino) : square[1] = 0

\* C14: a move key resets ticks_elapsed to 0 when the move goes down and
\* succeeds, and leaves ticks_elapsed as it was when the move fails or goes
\* left or right.
C14_OnlySoftDropResetsTimer ==
    [][last'.op = "move" =>
         game'.ticks_elapsed =
            IF last'.ok /\ last'.arg[2] > 0 THEN 0 ELSE game.ticks_elapsed]_vars

\* C14 witness: a move down succeeded above the tower, which the openings
\* build only before they let the clock tick, and ticks_elapsed is 0.
C14_Witness ==
    /\ last.op = "move"
    /\ last.arg = <<0, 1>>
    /\ last.ok
    /\ \A y \in 4..(HEIGHT - 1) : Cell(game.board, 5, y) # None
    /\ game.ticks_elapsed = 0

\* C15: a rotate key (by = 1 or -1) replaces the falling tetromino by the one
\* with rotation + by (a u8, wrapping) at the same position and of the same
\* shape if that one passes can_fit, and changes nothing otherwise; no other
\* field of the game changes in either case.
C15_TryRotateOrNothing ==
    [][last'.op = "rotate" =>
         \A target \in {[position |-> game.falling_tetromino.position,
                          rotation |-> (game.falling_tetromino.rotation + last'.arg[1]) % U8,
                          shape |-> game.falling_tetromino.shape]} :
            /\ last'.arg[1] \in {-1, 1}
            /\ game' = IF can_fit(game.board, target)
                       THEN [game EXCEPT !.falling_tetromino = target]
                       ELSE game
            /\ game'.falling_tetromino.position = game.falling_tetromino.position
            /\ game'.falling_tetromino.shape = game.falling_tetromino.shape
            /\ ~last'.finalized
            /\ game_over' = game_over
            /\ panicked' = panicked]_vars

\* C15 witness: before any game over a rotation was refused, and the falling
\* tetromino still has the rotation it was spawned with.
C15_Witness ==
    /\ last.op = "rotate"
    /\ ~last.ok
    /\ ~game_over
    /\ game.falling_tetromino.rotation = 0

\* C16: a drop key gives to place the falling tetromino moved down by k >= 0
\* rows, with the same x, rotation and shape, where every position 1..k rows
\* down passes can_fit and the position k + 1 rows down does not; the same
\* step places it, clears the complete rows and spawns the next tetromino.
C16_DropPlacesAtLowestPosition ==
    [][last'.op = "drop" =>
         \A k \in {last'.placed.position[2] - game.falling_tetromino.position[2]} :
            /\ last'.finalized
            /\ last'.placed.shape = game.falling_tetromino.shape
            /\ last'.placed.rotation = game.falling_tetromino.rotation
            /\ last'.placed.position[1] = game.falling_tetromino.position[1]
            /\ k >= 0
            /\ \A j \in 1..k :
                 can_fit(game.board,
                         [game.falling_tetromino EXCEPT !.position[2] = @ + j])
            /\ ~can_fit(game.board, [last'.placed EXCEPT !.position[2] = @ + 1])
            /\ game'.board = clear_complete(place(game.board, last'.placed).board).board
            /\ game'.falling_tetromino =
                 [position |-> <<3, -1>>, rotation |-> 0, shape |-> game.next_shape]]_vars

\* C16 witness: a drop took the tetromino down two rows or more and it came
\* to rest on a settled cell, above the floor, without completing a row.
C16_Witness ==
    /\ last.op = "drop"
    /\ last.rows = 0
    /\ last.placed.position[2] - ORIGIN[2] >= 2
    /\ \E square \in SquaresOf(last.placed) :
         /\ square[2] + 1 \in Ys
         /\ <<square[1], square[2] + 1>> \notin SquaresOf(last.placed)
         /\ Cell(game.board, square[1], square[2] + 1) # None

\* C17: a tick with ticks_elapsed < 59 adds 1 to ticks_elapsed and changes
\* nothing else; a tick with ticks_elapsed = 59 sets ticks_elapsed to 0 and
\* moves the falling tetromino down one row if that fits, and otherwise, and
\* only then, finalizes it where it is.  ticks_elapsed never exceeds 59.
C17_FallOnSixtiethTick ==
    [][last'.op = "tick" =>
         /\ game.ticks_elapsed \in 0..59
         /\ IF game.ticks_elapsed < 59
            THEN /\ game' = [game EXCEPT !.ticks_elapsed = @ + 1]
                 /\ ~last'.finalized
                 /\ game_over' = game_over
            ELSE \A target \in {[game.falling_tetromino EXCEPT !.position[2] = @ + 1]} :
                    /\ game'.ticks_elapsed = 0
                    /\ last'.finalized <=> ~can_fit(game.board, target)
                    /\ IF last'.finalized
                       THEN /\ last'.placed = game.falling_tetromino
                            /\ game'.board =
                                 clear_complete(place(game.board, last'.placed).board).board
                       ELSE game' = [game EXCEPT !.falling_tetromino = target,
                                                 !.ticks_elapsed = 0]]_vars

\* C17 witness: the 60th tick found the falling tetromino unable to move down
\* and finalized it.
C17_Witness ==
    /\ last.op = "tick"
    /\ last.finalized
    /\ game.ticks_elapsed = 0

\* C18: a handler that finalizes leaves as falling tetromino the one of the
\* shape that next_shape held before, at position (3, -1) with rotation 0; a
\* handler that does not finalize leaves next_shape unchanged.
C18_SpawnFromNextShapeAtOrigin ==
    [][IF last'.finalized
       THEN game'.falling_tetromino =
               [position |-> <<3, -1>>, rotation |-> 0, shape |-> game.next_shape]
       ELSE game'.next_shape = game.next_shape]_vars

\* C18 witness: a tetromino was locked rotated and away from the origin, and
\* the one spawned has another shape than the one now announced as next.
C18_Witness ==
    /\ last.finalized
    /\ last.placed.rotation # 0
    /\ last.placed.position # ORIGIN
    /\ game.falling_tetromino = new_at_origin(game.falling_tetromino.shape)
    /\ game.next_shape # game.falling_tetromino.shape

\* C19: when the player only drops and keeps dropping, whatever shapes are
\* drawn, a finalize whose spawned tetromino fails can_fit comes after
\* finitely many drops: the game over is eventually reported.  (The drop key
\* can always be pressed; the run in which the player stops pressing is set
\* aside by the premise.)
C19_DropsEndInGameOver == []<><<NextDrops>>_vars => <>game_over

\* C19 witness: drops alone have ended the game; the pile stands in every row
\* from row 2 to the floor and no row was ever cleared.
C19_Witness ==
    /\ game_over
    /\ last.op = "drop"
    /\ game.rows_cleared = 0
    /\ \A y \in 2..(HEIGHT - 1) : \E x \in Xs : Cell(game.board, x, y) # None

C22_PlacedTetrominoBlocksItself ==
    (/\ call.op = "place_can_fit"
     /\ \E square \in SquaresOf(call.tetromino) : square[2] >= 0)
        => call.ret = FALSE

\* C22 witness: an O at the origin was placed on the empty board and can_fit
\* then refused it.
C22_Witness ==
    /\ call.op = "place_can_fit"
    /\ call.board = empty
    /\ call.tetromino = new_at_origin("O")
    /\ call.ret = FALSE

\* C23: the state Game::new returns has a board of 10 x 20 cells, all empty,
\* a falling tetromino of one of the 7 shapes at (3, -1) with rotation 0, a
\* next shape, and ticks_elapsed, score, level and rows_cleared at 0; no game
\* over has been reported.
C23_NewSessionIsBlank ==
    last.op = "new" =>
        /\ game.board.grid.width = 10
        /\ game.board.grid.height = 20
        /\ DOMAIN game.board.grid.raw = 1..200
        /\ \A i \in 1..200 : game.board.grid.raw[i] = None
        /\ game.falling_tetromino.position = <<3, -1>>
        /\ game.falling_tetromino.rotation = 0
        /\ game.falling_tetromino.shape \in {"I", "J", "L", "O", "T", "Z", "S"}
        /\ game.next_shape \in {"I", "J", "L", "O", "T", "Z", "S"}
        /\ game.ticks_elapsed = 0
        /\ game.score = 0
        /\ game.level = 0
        /\ game.rows_cleared = 0
        /\ ~game_over
        /\ ~panicked

\* C23 witness: a new session whose next shape differs from the shape of the
\* falling tetromino.
C23_Witness ==
    /\ last.op = "new"
    /\ game.next_shape # game.falling_tetromino.shape
    /\ book = << >>

\* The largest and the smallest member of a non-empty finite set of integers.
Max(S) == CHOOSE m \in S : \A n \in S : n <= m

Min(S) == CHOOSE m \in S : \A n \in S : m <= n

\* C24: for every shape and rotation, squares gives 4 distinct offsets with
\* x and y in 0..3, width is the extent in x of those offsets and height
\* their extent in y.
C24_SquaresFitFrameAndExtents ==
    call.op = "shape" =>
        \A offsets \in {{call.ret.squares[i] : i \in 1..4}} :
            /\ Len(call.ret.squares) = 4
            /\ Cardinality(offsets) = 4
            /\ \A o \in offsets : o[1] \in 0..3 /\ o[2] \in 0..3
            /\ call.ret.width = Max({o[1] : o \in offsets}) - Min({o[1] : o \in offsets}) + 1
            /\ call.ret.height = Max({o[2] : o \in offsets}) - Min({o[2] : o \in offsets}) + 1

\* C24 witness: an S in rotation state 1 is 2 wide and 3 high.
C24_Witness ==
    /\ call.op = "shape"
    /\ call.tetromino.shape = "S"
    /\ call.tetromino.rotation = 1
    /\ call.ret.width = 2
    /\ call.ret.height = 3

\* C25: squares() gives the offsets of the shape in rotation state
\* rotation mod 4, each shifted by the position; moved(a) shifts every square
\* by a, wherever that leads, and keeps shape and rotation; rotated(by) keeps
\* position and shape; moved(a) followed by moved(b) is moved(a + b); and
\* moving then rotating gives what rotating then moving gives.
C25_TransformsArePure ==
    call.op = "transform" =>
        /\ \A i \in 1..4 :
              /\ call.ret.squares[i] =
                    <<Shape_squares(call.tetromino.shape, call.tetromino.rotation % 4)[i][1]
                          + call.tetromino.position[1],
                      Shape_squares(call.tetromino.shape, call.tetromino.rotation % 4)[i][2]
                          + call.tetromino.position[2]>>
              /\ call.ret.moved_squares[i] =
                    <<call.ret.squares[i][1] + call.ret.a[1],
                      call.ret.squares[i][2] + call.ret.a[2]>>
        /\ call.ret.moved.shape = call.tetromino.shape
        /\ call.ret.moved.rotation = call.tetromino.rotation
        /\ call.ret.rotated.position = call.tetromino.position
        /\ call.ret.rotated.shape = call.tetromino.shape
        /\ call.ret.twice = call.ret.sum
        /\ call.ret.moved_rotated = call.ret.rotated_moved

\* C25 witness: a move took a tetromino to a position where every square is
\* to the right of the board and above it.
C25_Witness ==
    /\ call.op = "transform"
    /\ \A i \in 1..4 :
         /\ call.ret.moved_squares[i][1] > WIDTH - 1
         /\ call.ret.moved_squares[i][2] < 0

\* C26: a rotate key and a move key, accepted or rejected, never run finalize,
\* and a step that does not run finalize leaves every board cell, the next
\* shape, the score, the level and rows_cleared as they were, however many
\* times it asked can_fit.
C26_OnlyFinalizeChangesTheRest ==
    [][/\ last'.op \in {"rotate", "move"} => ~last'.finalized
       /\ ~last'.finalized => Rest(game') = Rest(game)]_vars

\* C26 witness: a rotation was rejected on a board with settled squares, and
\* the falling tetromino is of another shape than the next.
C26_Witness ==
    /\ last.op = "rotate"
    /\ ~last.ok
    /\ game.board # empty
    /\ game.next_shape # game.falling_tetromino.shape

(***************************************************************************)
(* grid.rs as a library: any width and height, both build profiles.  The   *)
(* repository has no Cargo.toml; with cargo's default profiles usize       *)
(* arithmetic panics on overflow in a debug build and wraps in a release   *)
(* build.                                                                  *)
(***************************************************************************)
Builds == {"debug", "release"}

\* Stand-in for 2^32: HALF_WORD * HALF_WORD = USIZE_MODULUS.
HALF_WORD == 2 ^ 15

\* a * b in usize
usize_mul(a, b, build) ==
    IF a * b < USIZE_MODULUS THEN [value |-> a * b, panic |-> FALSE]
    ELSE IF build = "debug" THEN [value |-> 0, panic |-> TRUE]
    ELSE [value |-> (a * b) % USIZE_MODULUS, panic |-> FALSE]

\* a - b in usize
usize_sub(a, b, build) ==
    IF a >= b THEN [value |-> a - b, panic |-> FALSE]
    ELSE IF build = "debug" THEN [value |-> 0, panic |-> TRUE]
    ELSE [value |-> a - b + USIZE_MODULUS, panic |-> FALSE]

\* The grid of a constructor that panicked: there is none.
NoGrid == [raw |-> << >>, width |-> 0, height |-> 0]

\* Grid::from_row_major
from_row_major(values, width, height, build) ==
    LET len == usize_mul(width, height, build) IN
    IF len.panic \/ Len(values) # len.value
    THEN [grid |-> NoGrid, panic |-> TRUE]
    ELSE [grid |-> [raw |-> values, width |-> width, height |-> height], panic |-> FALSE]

\* Grid::filled_with, with the product computed in usize
Grid_filled_with(value, width, height, build) ==
    LET len == usize_mul(width, height, build) IN
    IF len.panic
    THEN [grid |-> NoGrid, panic |-> TRUE]
    ELSE [grid |-> [raw |-> [i \in 1..len.value |-> value], width |-> width,
                    height |-> height],
          panic |-> FALSE]

\* self.raw[index] panics exactly when this holds.
raw_index_panics(grid, index) == index >= Len(grid.raw)

\* Grid::get, with the panic of the Vec index
get(grid, x, y) ==
    IF y >= grid.height \/ x >= grid.width
    THEN [value |-> OutOfBounds, panic |-> FALSE]
    ELSE IF raw_index_panics(grid, index_of(grid, x, y))
    THEN [value |-> OutOfBounds, panic |-> TRUE]
    ELSE [value |-> grid.raw[index_of(grid, x, y) + 1], panic |-> FALSE]

\* Grid::set, with the panic of the Vec index
set(grid, x, y, value) ==
    IF Grid_set_panics(grid, x, y) \/ raw_index_panics(grid, index_of(grid, x, y))
    THEN [grid |-> grid, panic |-> TRUE]
    ELSE [grid |-> Grid_set(grid, x, y, value), panic |-> FALSE]

\* The range y * width .. (y + 1) * width of Grid::row_slice and
\* Grid::row_slice_mut, after their test of y; lo and hi count from 0.
row_range(grid, y, build) ==
    LET last_row == usize_sub(grid.height, 1, build)
        lo == usize_mul(y, grid.width, build)
        hi == usize_mul(y + 1, grid.width, build)
    IN  IF last_row.panic THEN [lo |-> 0, hi |-> 0, panic |-> TRUE]
        ELSE IF y > last_row.value THEN [lo |-> 0, hi |-> 0, panic |-> TRUE]
        ELSE IF lo.panic \/ hi.panic THEN [lo |-> 0, hi |-> 0, panic |-> TRUE]
        ELSE IF lo.value > hi.value \/ hi.value > Len(grid.raw)
        THEN [lo |-> 0, hi |-> 0, panic |-> TRUE]
        ELSE [lo |-> lo.value, hi |-> hi.value, panic |-> FALSE]

\* Grid::row_slice
row_slice(grid, y, build) ==
    LET r == row_range(grid, y, build) IN
    IF r.panic THEN [slice |-> << >>, panic |-> TRUE]
    ELSE [slice |-> SubSeq(grid.raw, r.lo + 1, r.hi), panic |-> FALSE]

\* grid.row_slice_mut(y)[x] = value
row_slice_mut_write(grid, y, x, value, build) ==
    LET r == row_range(grid, y, build) IN
    IF r.panic THEN [grid |-> grid, panic |-> TRUE]
    ELSE IF x >= r.hi - r.lo THEN [grid |-> grid, panic |-> TRUE]
    ELSE [grid |-> [grid EXCEPT !.raw[r.lo + x + 1] = value], panic |-> FALSE]

\* Mutant of iter_with_indices: the index is split by the height, column by
\* column.
iter_with_indices_by_columns(grid) ==
    [i \in 1..Len(grid.raw) |->
        <<(i - 1) \div grid.height, (i - 1) % grid.height, grid.raw[i]>>]

\* Grid::iter_with_indices, collected: IterWithIndices::next maps the i-th
\* item of raw.iter().enumerate() to (i % width, i / width, value).
iter_with_indices(grid) ==
    [i \in 1..Len(grid.raw) |->
        <<(i - 1) % grid.width, (i - 1) \div grid.width, grid.raw[i]>>]

\* The values of the cells and the vectors given to from_row_major.
Values == {"A", "B"}

Vectors == UNION {[1..n -> Values] : n \in 0..MaxCells}

\* Widths and heights given to from_row_major.
Dims == (0..MaxDim) \cup {HALF_WORD}

\* Indices given to the methods.
Indices == (0..(MaxDim + 1)) \cup {HALF_WORD}

\* One call on a grid: the grid before, the arguments, the result, the grid
\* after and whether the call panicked.
GridCall(op, build, grid, args, ret, after, panic) ==
    [op |-> op, build |-> build, grid |-> grid, args |-> args, ret |-> ret,
     after |-> after, panic |-> panic]

InitGrid ==
    /\ game = Game_new(VARIANTS[1], VARIANTS[1])
    /\ last = [op |-> "new", arg |-> << >>, ok |-> FALSE, finalized |-> FALSE,
               placed |-> new_at_origin(VARIANTS[1]), rows |-> 0, printed |-> FALSE]
    /\ game_over = FALSE
    /\ panicked = FALSE
    /\ book = << >>
    /\ keys = 0
    /\ drops = 0
    /\ ticks = 0
    /\ \E build \in Builds :
         call = GridCall("none", build, NoGrid, << >>, 0, NoGrid, FALSE)

\* Grid::from_row_major(values, width, height)
CallFromRowMajor ==
    /\ call.op = "none"
    /\ \E values \in Vectors, width \in Dims, height \in Dims :
         \E r \in {from_row_major(values, width, height, call.build)} :
            call' = GridCall("from_row_major", call.build, NoGrid,
                             <<values, width, height>>, 0, r.grid, r.panic)
    /\ UNCHANGED session

\* Grid::filled_with(value, width, height)
CallFilledWith ==
    /\ call.op = "none"
    /\ \E value \in Values,
          d \in ((0..MaxDim) \X (0..MaxDim)) \cup {<<HALF_WORD, HALF_WORD>>} :
         \E r \in {Grid_filled_with(value, d[1], d[2], call.build)} :
            call' = GridCall("filled_with", call.build, NoGrid,
                             <<value, d[1], d[2]>>, 0, r.grid, r.panic)
    /\ UNCHANGED session

\* A grid has been built and no method called on it yet.
Built == call.op \in {"from_row_major", "filled_with"} /\ ~call.panic

\* grid.get(x, y)
CallGet ==
    /\ Built
    /\ \E x \in Indices, y \in Indices :
         \E r \in {get(call.after, x, y)} :
            call' = GridCall("get", call.build, call.after, <<x, y>>, r.value,
                             call.after, r.panic)
    /\ UNCHANGED session

\* grid.set(x, y, value); ret is what grid.get(x, y) returns afterwards
CallSet ==
    /\ Built
    /\ \E x \in Indices, y \in Indices, value \in Values :
         \E r \in {set(call.after, x, y, value)} :
            call' = GridCall("set", call.build, call.after, <<x, y, value>>,
                             IF r.panic THEN 0 ELSE get(r.grid, x, y).value,
                             r.grid, r.panic)
    /\ UNCHANGED session

\* grid.row_slice(y)
CallRowSlice ==
    /\ Built
    /\ \E y \in Indices :
         \E r \in {row_slice(call.after, y, call.build)} :
            call' = GridCall("row_slice", call.build, call.after, <<y>>, r.slice,
                             call.after, r.panic)
    /\ UNCHANGED session

\* grid.row_slice_mut(y)[x] = value; ret is what grid.get(x, y) and
\* grid.row_slice(y) return afterwards
CallRowSliceMut ==
    /\ Built
    /\ \E y \in Indices, x \in Indices, value \in Values :
         \E r \in {row_slice_mut_write(call.after, y, x, value, call.build)} :
            call' = GridCall("row_slice_mut", call.build, call.after, <<y, x, value>>,
                             IF r.panic THEN 0
                             ELSE [get |-> get(r.grid, x, y).value,
                                   row_slice |-> row_slice(r.grid, y, call.build).slice],
                             r.grid, r.panic)
    /\ UNCHANGED session

\* grid.iter_with_indices().collect(); ret holds the triples and what
\* grid.get(x, y) returns for each
CallIterWithIndices ==
    /\ Built
    /\ \E yielded \in {iter_with_indices(call.after)} :
         call' = GridCall("iter_with_indices", call.build, call.after, << >>,
                          [yielded |-> yielded,
                           gets |-> [i \in 1..Len(yielded) |->
                                        get(call.after, yielded[i][1], yielded[i][2])]],
                          call.after, FALSE)
    /\ UNCHANGED session

NextGrid ==
    \/ CallFromRowMajor
    \/ CallFilledWith
    \/ CallGet
    \/ CallSet
    \/ CallRowSlice
    \/ CallRowSliceMut
    \/ CallIterWithIndices

SpecGrid == InitGrid /\ [][NextGrid]_vars

(***************************************************************************)
(* Properties of the Grid methods, checked under SpecGrid.                 *)
(***************************************************************************)
\* Every cell but the one of raw index `index` (from 0) is as it was, and so
\* are the width and the height.
OnlyCellChanged(index) ==
    /\ call.after.width = call.grid.width
    /\ call.after.height = call.grid.height
    /\ Len(call.after.raw) = Len(call.grid.raw)
    /\ \A i \in 1..Len(call.grid.raw) :
         i # index + 1 => call.after.raw[i] = call.grid.raw[i]

\* C27: get(x, y) with x < width and y < height returns the stored cell, and
\* otherwise returns None, in both cases without a panic; set(x, y, v) with
\* x < width and y < height makes get(x, y) return v and leaves every other
\* cell as it was; set with x >= width or y >= height panics and changes
\* nothing.
C27_GetAndSetRespectBounds ==
    /\ call.op = "get" =>
          /\ ~call.panic
          /\ call.ret = IF call.args[1] < call.grid.width /\ call.args[2] < call.grid.height
                        THEN call.grid.raw[call.args[2] * call.grid.width + call.args[1] + 1]
                        ELSE OutOfBounds
    /\ call.op = "set" =>
          IF call.args[1] < call.grid.width /\ call.args[2] < call.grid.height
          THEN /\ ~call.panic
               /\ call.ret = call.args[3]
               /\ call.after.raw[call.args[2] * call.grid.width + call.args[1] + 1]
                     = call.args[3]
               /\ OnlyCellChanged(call.args[2] * call.grid.width + call.args[1])
          ELSE call.panic /\ call.after = call.grid

\* C28: from_row_major panics exactly when the number of values differs from
\* width * height; filled_with, when it returns, gives width * height cells
\* all equal to the value; every grid holds width * height cells; set and
\* row_slice_mut change neither width nor height nor the number of cells.
C28_GridHoldsWidthTimesHeightCells ==
    /\ call.op = "from_row_major" =>
          /\ call.panic <=> Len(call.args[1]) # call.args[2] * call.args[3]
          /\ ~call.panic =>
                call.after = [raw |-> call.args[1], width |-> call.args[2],
                              height |-> call.args[3]]
    /\ call.op = "filled_with" /\ ~call.panic =>
          /\ call.after.width = call.args[2]
          /\ call.after.height = call.args[3]
          /\ Len(call.after.raw) = call.args[2] * call.args[3]
          /\ \A i \in 1..Len(call.after.raw) : call.after.raw[i] = call.args[1]
    /\ call.op # "none" /\ ~(call.op \in {"from_row_major", "filled_with"} /\ call.panic) =>
          Len(call.after.raw) = call.after.width * call.after.height
    /\ call.op \in {"set", "row_slice_mut"} =>
          /\ call.after.width = call.grid.width
          /\ call.after.height = call.grid.height
          /\ Len(call.after.raw) = Len(call.grid.raw)

\* C29: iter_with_indices yields one triple for each cell the grid holds and
\* then ends; the cell of raw index i comes as (i mod width, i div width,
\* value) with x < width and y < height, get(x, y) returns that value, and
\* the triples come in increasing y and, within a row, increasing x.
C29_IterYieldsEveryCellInRowMajorOrder ==
    call.op = "iter_with_indices" =>
        /\ ~call.panic
        /\ Len(call.ret.yielded) = Len(call.grid.raw)
        /\ \A i \in 1..Len(call.ret.yielded) :
              /\ call.ret.yielded[i][1] < call.grid.width
              /\ call.ret.yielded[i][2] < call.grid.height
              /\ call.ret.yielded[i][2] * call.grid.width + call.ret.yielded[i][1] = i - 1
              /\ call.ret.yielded[i][3] = call.grid.raw[i]
              /\ call.ret.gets[i] = [value |-> call.ret.yielded[i][3], panic |-> FALSE]
        /\ \A i \in 1..Len(call.ret.yielded), j \in 1..Len(call.ret.yielded) :
              i < j =>
                 \/ call.ret.yielded[i][2] < call.ret.yielded[j][2]
                 \/ /\ call.ret.yielded[i][2] = call.ret.yielded[j][2]
                    /\ call.ret.yielded[i][1] < call.ret.yielded[j][1]

\* C29 witness: the four cells of a 2 x 2 grid were yielded, the second as
\* (1, 0, "B") and the third as (0, 1, "A").
C29_Witness ==
    /\ call.op = "iter_with_indices"
    /\ call.grid.width = 2
    /\ call.grid.height = 2
    /\ Len(call.ret.yielded) = 4
    /\ call.ret.yielded[2] = <<1, 0, "B">>
    /\ call.ret.yielded[3] = <<0, 1, "A">>

\* C30: row_slice(y) with y < height returns the width cells of row y in
\* order; a write through row_slice_mut(y)[x] with y < height and x < width
\* is seen by get(x, y) and by row_slice(y) and changes no other cell;
\* row_slice and row_slice_mut panic when y >= height.
C30_RowSlicesRespectBounds ==
    /\ call.op = "row_slice" =>
          IF call.args[1] < call.grid.height
          THEN /\ ~call.panic
               /\ Len(call.ret) = call.grid.width
               /\ \A x \in 0..(call.grid.width - 1) :
                     call.ret[x + 1] = call.grid.raw[call.args[1] * call.grid.width + x + 1]
          ELSE call.panic
    /\ call.op = "row_slice_mut" =>
          IF call.args[1] >= call.grid.height
          THEN call.panic /\ call.after = call.grid
          ELSE call.args[2] < call.grid.width =>
                 /\ ~call.panic
                 /\ call.ret.get = call.args[3]
                 /\ Len(call.ret.row_slice) = call.grid.width
                 /\ call.ret.row_slice[call.args[2] + 1] = call.args[3]
                 /\ OnlyCellChanged(call.args[1] * call.grid.width + call.args[2])

(***************************************************************************)
(* Properties of whole sessions, checked under Spec.                       *)
(***************************************************************************)
\* C31: after every handler of the session, and after Game::new,
\* ticks_elapsed is one of 0..59.
C31_TicksElapsedBelowSixty == game.ticks_elapsed \in 0..59

\* C31 witness: a key moved the falling tetromino sideways while
\* ticks_elapsed stood at 59.
C31_Witness ==
    /\ last.op = "move"
    /\ last.ok
    /\ last.arg[2] = 0
    /\ game.ticks_elapsed = 59

\* C32: when the clock keeps ticking, whatever rotate and move keys the
\* player presses in between, the falling tetromino is eventually finalized;
\* until then its position.y never decreases; and a move down that succeeds
\* takes it exactly one row down, between row -1 and the last row of the
\* board, so that at most HEIGHT of them succeed for one tetromino.
C32_FallingIsEventuallyFinalized ==
    /\ []<><<ClockTick>>_vars => <>last.finalized
    /\ [][~last'.finalized =>
            /\ game'.falling_tetromino.position[2] >= game.falling_tetromino.position[2]
            /\ last'.op = "move" /\ last'.ok /\ last'.arg[2] > 0 =>
                  game'.falling_tetromino.position[2]
                     = game.falling_tetromino.position[2] + 1]_vars
    /\ [](game.falling_tetromino.position[2] \in (-1)..(HEIGHT - 1))

\* C32 witness: the tetromino was moved sideways and turned on its way, went
\* all the way down and was finalized by a tick on the floor.
C32_Witness ==
    /\ last.op = "tick"
    /\ last.finalized
    /\ last.placed.position[1] # 3
    /\ last.placed.rotation # 0
    /\ \E square \in SquaresOf(last.placed) : square[2] = HEIGHT - 1

\* C33: a tetromino of any of the 7 shapes spawned by new_at_origin is at
\* position (3, -1) with rotation 0 and has its 4 squares at 3 <= x <= 6 and
\* 0 <= y <= 1; it passes can_fit on the empty board, and on any board it
\* fails can_fit exactly when one of those 4 cells is occupied.
C33_SpawnLiesInTopTwoRows ==
    call.op = "spawn" =>
        /\ call.tetromino.position = <<3, -1>>
        /\ call.tetromino.rotation = 0
        /\ \A i \in 1..4 :
              /\ call.ret.squares[i][1] \in 3..6
              /\ call.ret.squares[i][2] \in 0..1
        /\ call.ret.fits_empty
        /\ ~call.ret.fits <=>
              \E i \in 1..4 :
                 Cell(call.board, call.ret.squares[i][1], call.ret.squares[i][2]) # None

\* C33 witness: a spawned tetromino failed can_fit on a board on which one of
\* its squares is occupied and another one is free.
C33_Witness ==
    /\ call.op = "spawn"
    /\ ~call.ret.fits
    /\ \E i \in 1..4 :
         Cell(call.board, call.ret.squares[i][1], call.ret.squares[i][2]) = None

\* C34: no handler of the session panics; every square with y >= 0 of a
\* tetromino that finalize gives to place, that is, every square place
\* writes, has 0 <= x < WIDTH and 0 <= y < HEIGHT, so that Grid::set does not
\* panic; and every index on which clear_complete then unwraps the result of
\* get is inside the grid.
C34_NoPanicInPlaceAndClear ==
    /\ []~panicked
    /\ [][last'.finalized =>
            /\ \A square \in SquaresOf(last'.placed) :
                  square[2] >= 0 =>
                     /\ square[1] \in 0..(WIDTH - 1)
                     /\ square[2] \in 0..(HEIGHT - 1)
                     /\ ~Grid_set_panics(game.board.grid, as_usize(square[1]),
                                         as_usize(square[2]))
            /\ ~place(game.board, last'.placed).panic
            /\ \A index \in unwrapped(place(game.board, last'.placed).board.grid) :
                  Grid_get(game.board.grid, index[1], index[2]) # OutOfBounds]_vars

\* C34 witness: finalize placed a tetromino with a square above the board,
\* which place skips, and a square in row 0.
C34_Witness ==
    /\ last.finalized
    /\ \E square \in SquaresOf(last.placed) : square[2] < 0
    /\ \E square \in SquaresOf(last.placed) : square[2] = 0

\* C35: after one call of clear_complete, on a board with any complete rows,
\* no row is complete, and a second call right after it returns 0 and changes
\* no cell.
C35_ClearCompleteLeavesNoCompleteRow ==
    call.op = "clear_twice" =>
        /\ \A y \in Ys : \E x \in Xs : Cell(call.ret.between, x, y) = None
        /\ call.ret.second = 0
        /\ call.after = call.ret.between

\* C35 witness: row 0 and the two bottom rows were complete, with occupied
\* rows between them, and the first call cleared the three.
C35_Witness ==
    /\ call.op = "clear_twice"
    /\ call.ret.first = 3
    /\ CompleteRows(call.board) = {0, HEIGHT - 2, HEIGHT - 1}
    /\ \E x \in Xs : Cell(call.board, x, 1) # None

\* C36: score and rows_cleared never decrease; in every reachable state
\* 40 * rows_cleared <= score <= 300 * rows_cleared, and score is 0 exactly
\* when rows_cleared is 0.
C36_ScoreBetweenFortyAndThreeHundredPerRow ==
    /\ [](40 * game.rows_cleared <= game.score /\ game.score <= 300 * game.rows_cleared)
    /\ [](game.score = 0 <=> game.rows_cleared = 0)
    /\ [][game'.score >= game.score /\ game'.rows_cleared >= game.rows_cleared]_vars

\* C36 witness: four rows were cleared at once and the score stands at the
\* upper limit, 1200 = 300 * 4.
C36_Witness ==
    /\ last.finalized
    /\ last.rows = 4
    /\ game.rows_cleared = 4
    /\ game.score = 1200

\* C37: level is 0 in every reachable state, however many rows have been
\* cleared; and a tick runs fall, leaving ticks_elapsed at 0, exactly when it
\* is the 60th since the counter was last at 0.
C37_LevelStaysZero ==
    /\ [](game.level = 0)
    /\ [][/\ game'.level = game.level
          /\ last'.op = "tick" =>
                (game'.ticks_elapsed = 0 <=> game.ticks_elapsed = 60 - 1)]_vars

\* C37 witness: four rows have been cleared and the clock ticked afterwards.
C37_Witness ==
    /\ last.op = "tick"
    /\ game.rows_cleared = 4
    /\ game.level = 0

\* C38: a drop key leaves ticks_elapsed at 0 when the tetromino went down at
\* least one row before it was placed, and leaves ticks_elapsed as it was
\* when the tetromino was placed where it stood; the finalize of the drop
\* does not touch ticks_elapsed, so the tetromino spawned by it starts with
\* the ticks that had elapsed.
C38_DropResetsTimerOnlyWhenItMoves ==
    [][last'.op = "drop" =>
         /\ last'.finalized
         /\ last'.placed.position[2] >= game.falling_tetromino.position[2]
         /\ game'.ticks_elapsed =
               IF last'.placed.position[2] > game.falling_tetromino.position[2]
               THEN 0
               ELSE game.ticks_elapsed]_vars

\* C38 witness: a drop placed the tetromino where it was spawned, and the
\* next one starts at the origin with 59 ticks elapsed.
C38_Witness ==
    /\ last.op = "drop"
    /\ last.placed.position = <<3, -1>>
    /\ game.falling_tetromino.position = <<3, -1>>
    /\ game.ticks_elapsed = 59

(***************************************************************************)
(* scene.rs, game_over.rs, main_menu.rs: the scenes beside the game.  A    *)
(* handler returns an Action: Continue, or SwitchScene with the new scene. *)
(* In SpecScenes `call` holds the scene and the handler called last on it, *)
(* with its input and the Action it returned.                              *)
(***************************************************************************)
Continue == [action |-> "Continue"]

SwitchScene(scene) == [action |-> "SwitchScene", scene |-> scene]

\* The scancode of the Enter key.
ENTER == 28

\* MainMenu::new
MainMenu_new == [kind |-> "MainMenu"]

\* GameOver::new
GameOver_new(score) == [kind |-> "GameOver", score |-> score]

\* Box::new(Game::new()), with the two shapes Game::new draws
Game_scene(falling, next) == [kind |-> "Game", game |-> Game_new(falling, next)]

\* Mutant of GameOver_keyboard_input: the release of Enter starts a game too.
GameOver_keyboard_input_any_state(self, input, falling, next) ==
    [self |-> self,
     ret |-> IF input.scancode = ENTER
             THEN SwitchScene(Game_scene(falling, next))
             ELSE Continue]

\* <GameOver as Scene>::keyboard_input: the scene afterwards and the Action
GameOver_keyboard_input(self, input, falling, next) ==
    [self |-> self,
     ret |-> IF input.scancode = ENTER /\ input.state = "Pressed"
             THEN SwitchScene(Game_scene(falling, next))
             ELSE Continue]

\* <GameOver as Scene>::tick
GameOver_tick(self) == [self |-> self, ret |-> Continue]

\* <MainMenu as Scene>::keyboard_input
MainMenu_keyboard_input(self, input, falling, next) ==
    [self |-> self,
     ret |-> IF input.scancode = ENTER /\ input.state = "Pressed"
             THEN SwitchScene(Game_scene(falling, next))
             ELSE Continue]

\* <MainMenu as Scene>::tick
MainMenu_tick(self) == [self |-> self, ret |-> Continue]

\* The keys of the game, Enter, Escape and two keys without a meaning.
Scancodes == {ENTER, 57, 16, 18, 30, 32, 31, 1, 0, 29}

KeyboardInputs == [scancode : Scancodes, state : {"Pressed", "Released"}]

\* The scores a GameOver scene is made with.
Scores == {0, 40, 100, 340, 1200, 1240}

Scenes == {MainMenu_new} \cup {GameOver_new(score) : score \in Scores}

SceneCall(scene, op, input, ret) ==
    [scene |-> scene, op |-> op, input |-> input, ret |-> ret]

NoInput == [scancode |-> 0, state |-> "None"]

InitScenes ==
    /\ game = Game_new(VARIANTS[1], VARIANTS[1])
    /\ last = [op |-> "new", arg |-> << >>, ok |-> FALSE, finalized |-> FALSE,
               placed |-> new_at_origin(VARIANTS[1]), rows |-> 0, printed |-> FALSE]
    /\ game_over = FALSE
    /\ panicked = FALSE
    /\ book = << >>
    /\ keys = 0
    /\ drops = 0
    /\ ticks = 0
    /\ \E scene \in Scenes : call = SceneCall(scene, "new", NoInput, Continue)

\* scene.keyboard_input(input) on the GameOver scene
GameOverKey ==
    /\ call.scene.kind = "GameOver"
    /\ \E input \in KeyboardInputs, falling \in random, next \in random :
         \E r \in {GameOver_keyboard_input(call.scene, input, falling, next)} :
            call' = SceneCall(r.self, "keyboard_input", input, r.ret)
    /\ UNCHANGED session

\* scene.tick() on the GameOver scene
GameOverTick ==
    /\ call.scene.kind = "GameOver"
    /\ \E r \in {GameOver_tick(call.scene)} :
         call' = SceneCall(r.self, "tick", NoInput, r.ret)
    /\ UNCHANGED session

\* scene.keyboard_input(input) on the MainMenu scene
MainMenuKey ==
    /\ call.scene.kind = "MainMenu"
    /\ \E input \in KeyboardInputs, falling \in random, next \in random :
         \E r \in {MainMenu_keyboard_input(call.scene, input, falling, next)} :
            call' = SceneCall(r.self, "keyboard_input", input, r.ret)
    /\ UNCHANGED session

\* scene.tick() on the MainMenu scene
MainMenuTick ==
    /\ call.scene.kind = "MainMenu"
    /\ \E r \in {MainMenu_tick(call.scene)} :
         call' = SceneCall(r.self, "tick", NoInput, r.ret)
    /\ UNCHANGED session

NextScenes ==
    \/ GameOverKey
    \/ GameOverTick
    \/ MainMenuKey
    \/ MainMenuTick

SpecScenes == InitScenes /\ [][NextScenes]_vars

\* C39: in the GameOver scene and in the MainMenu scene tick returns
\* Continue; keyboard_input returns SwitchScene with a new Game (empty board,
\* score 0) for a pressed key of scancode 28 and Continue for every other key
\* and for every release; and the scene, with the score a GameOver scene
\* holds, never changes.
C39_ScenesOnlyStartAGameOnEnter ==
    /\ [](call.op = "tick" => call.ret = [action |-> "Continue"])
    /\ [](call.op = "keyboard_input" =>
            IF call.input.scancode = 28 /\ call.input.state = "Pressed"
            THEN /\ call.ret.action = "SwitchScene"
                 /\ call.ret.scene.kind = "Game"
                 /\ call.ret.scene.game.board = empty
                 /\ call.ret.scene.game.score = 0
            ELSE call.ret = [action |-> "Continue"])
    /\ [][call'.scene = call.scene]_vars

\* C39 witness: the GameOver scene holding the score 1200 was given the
\* release of the Enter key and returned Continue.
C39_Witness ==
    /\ call.scene = [kind |-> "GameOver", score |-> 1200]
    /\ call.op = "keyboard_input"
    /\ call.input = [scancode |-> 28, state |-> "Released"]
    /\ call.ret.action = "Continue"

====
